---------------------------- MODULE Spec2Model ----------------------------
(***************************************************************************)
(* Client of the Autodistil-KG pipeline service.                           *)
(*                                                                         *)
(*   Spec         the application: ConfigurePipeline submitting live runs  *)
(*                through runPipelineViaWebSocket (api/client.ts) into the *)
(*                state of App (App.tsx).                                  *)
(*   ChannelSpec  one socket of runPipelineViaWebSocket with a caller that *)
(*                may invoke the returned close function.                  *)
(*   FoldSpec     the live reduction stagesFromWsEvents                    *)
(*                (MonitorProgress.tsx) applied to growing event logs at   *)
(*                advancing clock values.                                  *)
(*   PollSpec     MonitorProgress polling getRunStatus: one socket that    *)
(*                may deliver any frame, tab changes that mount and        *)
(*                unmount the component, interval ticks and their          *)
(*                responses resolving in any order.                        *)
(*   LiveRunSpec  one live run from the stage tiles to the end: the user   *)
(*                toggles stages and submits once, the service sends the   *)
(*                events of a successful run of the submitted stages.      *)
(*   ClientSpec   the HTTP helpers runPipeline, getRunStatus and           *)
(*                downloadRunArtifact (api/client.ts) applied to the       *)
(*                responses a service can give.                            *)
(*   ConfigureSpec  the configuration view: stage tiles, Export Config     *)
(*                and one live submission, with the tabs of App.           *)
(*   RequestSpec  ConfigurePipeline hosted without setWsEvents and onDone, *)
(*                submitting through runPipeline while the operator picks  *)
(*                stages and changes tabs.                                 *)
(*   RequestLiveSpec  such a submission followed by MonitorProgress        *)
(*                polling the run the response names, without tab changes, *)
(*                the interval timer and the outstanding status responses  *)
(*                weakly fair.                                             *)
(*                                                                         *)
(* The callbacks handed to runPipelineViaWebSocket are the closures built  *)
(* by ConfigurePipeline.handleRun; they only call React state setters and  *)
(* therefore return normally.                                              *)
(***************************************************************************)
EXTENDS Integers, Sequences, FiniteSets, TLC

(***************************************************************************)
(* Bounds of the model.                                                    *)
(***************************************************************************)
\* live runs submitted (WebSockets created) in one behaviour
MaxRuns == 2
\* inbound frames delivered in one behaviour, over all sockets
MaxFrames == 3
\* invocations of the returned close functions by their callers, over all sockets
MaxCloseCalls == 2
\* length of the event log handed to the fold in FoldSpec
MaxEvents == 3
\* largest clock reading (seconds) in FoldSpec
MaxClock == 1
\* status polls issued by the intervals of MonitorProgress in one behaviour
MaxPolls == 3
\* status polls awaiting their response at the same time
MaxInflight == 2
\* calls of the HTTP helpers of api/client.ts in one behaviour of ClientSpec
MaxCalls == 2

Chans == 1..MaxRuns

Null == "null"
\* null where an object is expected
NullObject == [null |-> TRUE]
Undefined == "undefined"

(***************************************************************************)
(* types/config.ts                                                         *)
(***************************************************************************)
STAGE_ORDER == <<"graph_traverser", "chatml_converter", "finetuner", "evaluator">>

STAGE_LABELS ==
    [graph_traverser |-> "Graph Traverser", chatml_converter |-> "ChatML Converter",
     finetuner |-> "FineTuner", evaluator |-> "Evaluator"]

\* STAGE_LABELS[id as keyof typeof STAGE_LABELS] ?? id
Label(id) == IF id \in DOMAIN STAGE_LABELS THEN STAGE_LABELS[id] ELSE id

Last(s) == s[Len(s)]

RECURSIVE Concat(_)
Concat(ss) == IF ss = <<>> THEN <<>> ELSE Head(ss) \o Concat(Tail(ss))

\* Array.prototype.indexOf, 1-based; 0 when absent (JavaScript's -1)
IndexOf(s, x) ==
    IF \E i \in 1..Len(s) : s[i] = x
    THEN CHOOSE i \in 1..Len(s) : s[i] = x /\ \A j \in 1..(i - 1) : s[j] # x
    ELSE 0

(***************************************************************************)
(* Lifecycle events (WsEvent) and the frames a socket can deliver.         *)
(***************************************************************************)
RunStart(r) == [event |-> "run_start", run_id |-> r]
PipelineStart(S) == [event |-> "pipeline_start", stages |-> S]
\* a pipeline_start whose payload carries no stages
PipelineStartBare == [event |-> "pipeline_start"]
StageStart(s) == [event |-> "stage_start", stage |-> s]
StageEnd(s, ok, err) == [event |-> "stage_end", stage |-> s, success |-> ok, error |-> err]
LogEvent(lvl, msg) == [event |-> "log", level |-> lvl, logger |-> "pipeline", message |-> msg]
Done(ok) == [event |-> "done", success |-> ok, context |-> Undefined, results |-> Undefined]
ErrorEvent(msg) == [event |-> "error", message |-> msg]

\* the JSON literal null
JsNull == [jsnull |-> TRUE]

\* ev.data of a message event: text that is JSON of `value`, or text that is not JSON
JsonText(v) == [wellFormed |-> TRUE, value |-> v]
Garbage == [wellFormed |-> FALSE, value |-> "{oops"]

ChannelEvents ==
    {RunStart("r1"), RunStart("r2"), StageStart("graph_traverser"),
     Done(TRUE), Done(FALSE), ErrorEvent("boom")}

Frames == {JsonText(v) : v \in ChannelEvents \cup {JsNull}} \cup {Garbage}

\* JSON.parse(ev.data): the value, or a SyntaxError
JSONParse(data) ==
    IF data.wellFormed
    THEN [threw |-> FALSE, value |-> data.value]
    ELSE [threw |-> TRUE, message |-> "Unexpected token"]

(***************************************************************************)
(* State.                                                                  *)
(***************************************************************************)
VARIABLES
    \* App (App.tsx)
    activeTab, lastRunId, lastResult, config, wsEvents, isWsConnected,
    \* which object the config state holds: 0 none, c the one built for socket c
    configObj,
    \* the mounted MonitorProgress: its state and refs, the intervals it left
    \* running, the polls awaiting their response
    mStages, mProgress, mLogs, pollRef, lastLogMsgRef, leaked, inflight,
    \* observation of the polling: polls issued, clearInterval calls on a timer
    \* already cleared, runs signalled through onDone, summaries of the session
    pollsIssued, reclears, pollDone, pollSeen,
    \* observation of the terminal branch when the latest handler ran it: what
    \* it handed to the setters
    terminalSet,
    \* the mounted ConfigurePipeline
    selectedStages, running, error,
    \* observation: the stage id toggleStage was called with when that call
    \* was the latest step of the component, "" after any other handler
    toggled,
    \* runPipelineViaWebSocket, one entry per socket created
    nOpened, readyState, closed, runId, sent, cfgOf, ownerAlive,
    \* observation of each socket: frames delivered, callbacks invoked, ws.close()
    \* calls, calls of the returned close function
    inbound, calls, wsCloseCalls, closeFnCalls, lateCall, transportErrs,
    \* stagesFromWsEvents under FoldSpec
    fEvents, fRunOrder, clock, fCur, fPrev,
    \* request/response mode: the submissions whose runPipeline call is pending,
    \* and whether the run has reached its terminal status at the service
    fetching, settled,
    \* observation of the HTTP helpers of api/client.ts: each call with its outcome
    http

appVars == <<activeTab, lastRunId, lastResult, config, wsEvents, isWsConnected, configObj>>
monVars == <<mStages, mProgress, mLogs, pollRef, lastLogMsgRef, leaked, inflight,
             pollsIssued, reclears, pollDone, pollSeen, terminalSet>>
cpVars == <<selectedStages, running, error, toggled>>
wsVars == <<nOpened, readyState, closed, runId, sent, cfgOf, ownerAlive>>
obsVars == <<inbound, calls, wsCloseCalls, closeFnCalls, lateCall, transportErrs>>
foldVars == <<fEvents, fRunOrder, clock, fCur, fPrev>>
reqVars == <<fetching, settled, http>>
vars == <<appVars, cpVars, wsVars, obsVars, foldVars, monVars, reqVars>>


(***************************************************************************)
(* ConfigurePipeline: buildConfig and the callbacks of handleRun.          *)
(***************************************************************************)
DefaultSelectedStages == <<"graph_traverser", "chatml_converter">>

\* a copy of the selection, left in the order of selection
SortKeepsSelectionOrder(sel) == sel

\* [...selectedStages].sort((a, b) => STAGE_ORDER.indexOf(a) - STAGE_ORDER.indexOf(b))
SortByStageOrder(sel) ==
    Concat([i \in 1..Len(STAGE_ORDER) |-> SelectSeq(sel, LAMBDA x : x = STAGE_ORDER[i])])

\* the payload's run_stages; the per-stage sub-objects are form values no handler reads
buildConfig == [output_dir |-> "./output", run_stages |-> SortByStageOrder(selectedStages)]

\* the React state the callbacks write, as one record.  App hands
\* setIsWsConnected to ConfigurePipeline as setIsConnected, a prop the
\* component does not read: no handler writes isWsConnected
AppState ==
    [activeTab |-> activeTab, lastRunId |-> lastRunId, lastResult |-> lastResult,
     config |-> config, wsEvents |-> wsEvents, isWsConnected |-> isWsConnected,
     running |-> running, error |-> error, configObj |-> configObj]

\* App.handleRun
AppHandleRun(A, id, cfg) ==
    [A EXCEPT !.lastRunId = id, !.config = cfg, !.wsEvents = <<>>, !.activeTab = "monitor"]

\* App.handleDone
AppHandleDone(A, result) == [A EXCEPT !.lastResult = result, !.activeTab = "results"]

\* onRunId: (id) => onRun(id, config)
CbOnRunId(A, c, id) == [AppHandleRun(A, id, cfgOf[c]) EXCEPT !.configObj = c]

\* onEvent: (e) => setWsEvents((prev) => [...prev, e])
CbOnEvent(A, c, e) == [A EXCEPT !.wsEvents = Append(@, e)]

\* onDone: (r) => { onDone(r); setRunning(false) }; a setter of an unmounted
\* component changes nothing
CbOnDone(A, c, r) ==
    [AppHandleDone(A, r) EXCEPT !.running = IF ownerAlive[c] THEN FALSE ELSE @]

\* onError: (msg) => { setError(msg); setRunning(false) }
CbOnError(A, c, msg) ==
    IF ownerAlive[c] THEN [A EXCEPT !.error = msg, !.running = FALSE] ELSE A

ApplyCallback(A, c, call) ==
    CASE call.cb = "onRunId" -> CbOnRunId(A, c, call.arg)
      [] call.cb = "onEvent" -> CbOnEvent(A, c, call.arg)
      [] call.cb = "onDone" -> CbOnDone(A, c, call.arg)
      [] call.cb = "onError" -> CbOnError(A, c, call.arg)

RECURSIVE ApplyCallbacks(_, _, _)
ApplyCallbacks(A, c, cs) ==
    IF cs = <<>> THEN A ELSE ApplyCallbacks(ApplyCallback(A, c, Head(cs)), c, Tail(cs))

(***************************************************************************)
(* runPipelineViaWebSocket (api/client.ts).                                *)
(***************************************************************************)
Call(cb, arg) == [cb |-> cb, arg |-> arg]

\* close() without its test of `closed`
CloseNeverReturnsEarly(c) == FALSE

\* close(): if (closed) return
CloseReturnsEarly(c) == closed[c]

\* onmessage without its test of `closed`
MessageNeverIgnored(c) == FALSE

\* onmessage: if (closed) return
MessageIgnored(c) == closed[c]

\* onerror: if (!closed) { ... }
ErrorIgnored(c) == closed[c]

\* a result that reports every finished run as completed
DoneResultAlwaysCompleted(rid, d) ==
    [run_id |-> rid, status |-> "completed",
     success |-> d.success, context |-> d.context, results |-> d.results]

\* the result handed to onDone for a done event d
DoneResult(rid, d) ==
    [run_id |-> rid, status |-> IF d.success THEN "completed" ELSE "failed",
     success |-> d.success, context |-> d.context, results |-> d.results]

\* runId after the switch statement has handled payload
RunIdAfter(rid, payload) ==
    IF payload # JsNull /\ payload.event = "run_start" THEN payload.run_id ELSE rid

\* the callbacks the switch statement invokes for a parsed payload, in order;
\* reading .event of null throws a TypeError, which the catch block reports
SwitchCallbacks(rid, payload) ==
    IF payload = JsNull
    THEN <<Call("onError", "Cannot read properties of null")>>
    ELSE CASE payload.event = "run_start" -> <<Call("onRunId", payload.run_id)>>
           [] payload.event = "done" -> <<Call("onDone", DoneResult(rid, payload))>>
           [] payload.event = "error" -> <<Call("onError", payload.message)>>
           [] OTHER -> <<>>

\* onmessage calling onEvent after the switch statement instead of before it
MessageCallbacksEventLast(rid, data) ==
    LET parsed == JSONParse(data) IN
    IF parsed.threw
    THEN <<Call("onError", parsed.message)>>
    ELSE SwitchCallbacks(rid, parsed.value) \o <<Call("onEvent", parsed.value)>>

\* the body of onmessage after the closed test: the callbacks invoked, in order
MessageCallbacks(rid, data) ==
    LET parsed == JSONParse(data) IN
    IF parsed.threw
    THEN <<Call("onError", parsed.message)>>
    ELSE <<Call("onEvent", parsed.value)>> \o SwitchCallbacks(rid, parsed.value)

\* whether onmessage ends in close(): the done and error cases and the catch block
MessageCloses(data) ==
    LET parsed == JSONParse(data) IN
    IF parsed.threw THEN TRUE
    ELSE IF parsed.value = JsNull THEN TRUE
    ELSE parsed.value.event \in {"done", "error"}

\* onerror: callbacks.onError('WebSocket error'); close()
OnerrorCallbacks == <<Call("onError", "WebSocket error")>>
\* onerror reporting the error and leaving the channel open
OnerrorLeavesOpen == FALSE
OnerrorCloses == TRUE

\* WebSocket.close(): an OPEN or CONNECTING socket starts closing
SocketClose(rs) == IF rs \in {"CONNECTING", "OPEN"} THEN "CLOSING" ELSE rs

(***************************************************************************)
(* MonitorProgress: the live reduction stagesFromWsEvents.                 *)
(***************************************************************************)
DaySeconds == 86400

Pad2(n) == IF n < 10 THEN "0" \o ToString(n) ELSE ToString(n)

\* new Date().toISOString().slice(11, 19) with the clock at t seconds: HH:MM:SS
Timestamp(t) ==
    LET d == t % DaySeconds IN
    Pad2(d \div 3600) \o ":" \o Pad2((d \div 60) % 60) \o ":" \o Pad2(d % 60)

\* Array.prototype.join(' -> '); the arrow and the dash of the source are written in ASCII
RECURSIVE JoinArrow(_)
JoinArrow(s) ==
    IF s = <<>> THEN ""
    ELSE IF Len(s) = 1 THEN s[1]
    ELSE s[1] \o " -> " \o JoinArrow(Tail(s))

PendingStage(id) == [name |-> Label(id), status |-> "pending", progress |-> 0, error |-> Undefined]

\* runOrder.map((id) => ({ name, status: 'pending', progress: 0 }))
PendingStages(order) == [i \in 1..Len(order) |-> PendingStage(order[i])]

\* the accumulators before the first event
FoldStart(runOrder) ==
    [orderedStages |-> runOrder, stageDetails |-> PendingStages(runOrder),
     logs |-> <<>>, completedCount |-> 0]

LogLine(ts, level, text) == "[" \o ts \o "] [" \o level \o "] " \o text

\* idx >= 0 && idx < stageDetails.length, for the 1-based idx
Located(acc, idx) == idx >= 1 /\ idx <= Len(acc.stageDetails)

OnRunStart(acc, ev, ts) ==
    [acc EXCEPT !.logs = Append(@, LogLine(ts, "INFO", "Run started (live updates via WebSocket)"))]

\* pipeline_start taking the new order and keeping the entries it had
OnPipelineStartKeepsEntries(acc, ev, ts, runOrder) ==
    LET order == IF "stages" \in DOMAIN ev THEN ev.stages ELSE runOrder IN
    [acc EXCEPT !.orderedStages = order,
                !.logs = Append(@, LogLine(ts, "INFO", "Pipeline started: " \o JoinArrow(order)))]

OnPipelineStart(acc, ev, ts, runOrder) ==
    LET order == IF "stages" \in DOMAIN ev THEN ev.stages ELSE runOrder IN
    [acc EXCEPT !.orderedStages = order,
                !.stageDetails = PendingStages(order),
                !.logs = Append(@, LogLine(ts, "INFO", "Pipeline started: " \o JoinArrow(order)))]

OnStageStart(acc, ev, ts) ==
    LET idx == IndexOf(acc.orderedStages, ev.stage) IN
    [acc EXCEPT !.stageDetails =
                    IF Located(acc, idx)
                    THEN [@ EXCEPT ![idx] = [@ EXCEPT !.name = Label(ev.stage),
                                                      !.status = "running",
                                                      !.progress = 0]]
                    ELSE @,
                !.logs = Append(@, LogLine(ts, "INFO", "Stage started: " \o ev.stage))]

\* stage_end counting a success before looking the stage up
OnStageEndCountsUnknown(acc, ev, ts) ==
    LET idx == IndexOf(acc.orderedStages, ev.stage)
        word == IF ev.success THEN "completed" ELSE "failed"
        tail == IF ev.error = Undefined \/ ev.error = "" THEN "" ELSE " -- " \o ev.error
    IN
    [acc EXCEPT !.stageDetails =
                    IF Located(acc, idx)
                    THEN [@ EXCEPT ![idx] = [name |-> Label(ev.stage),
                                             status |-> word,
                                             progress |-> IF ev.success THEN 100 ELSE 0,
                                             error |-> ev.error]]
                    ELSE @,
                !.completedCount = IF ev.success THEN @ + 1 ELSE @,
                !.logs = Append(@, LogLine(ts, IF ev.success THEN "INFO" ELSE "ERROR",
                                           "Stage " \o word \o ": " \o ev.stage \o tail))]

OnStageEnd(acc, ev, ts) ==
    LET idx == IndexOf(acc.orderedStages, ev.stage)
        word == IF ev.success THEN "completed" ELSE "failed"
        tail == IF ev.error = Undefined \/ ev.error = "" THEN "" ELSE " -- " \o ev.error
    IN
    [acc EXCEPT !.stageDetails =
                    IF Located(acc, idx)
                    THEN [@ EXCEPT ![idx] = [name |-> Label(ev.stage),
                                             status |-> word,
                                             progress |-> IF ev.success THEN 100 ELSE 0,
                                             error |-> ev.error]]
                    ELSE @,
                !.completedCount = IF Located(acc, idx) /\ ev.success THEN @ + 1 ELSE @,
                !.logs = Append(@, LogLine(ts, IF ev.success THEN "INFO" ELSE "ERROR",
                                           "Stage " \o word \o ": " \o ev.stage \o tail))]

OnLog(acc, ev, ts) == [acc EXCEPT !.logs = Append(@, LogLine(ts, ev.level, ev.message))]

OnDoneEvent(acc, ev, ts) ==
    [acc EXCEPT !.logs = Append(@, LogLine(ts, IF ev.success THEN "INFO" ELSE "ERROR",
                                   IF ev.success THEN "Pipeline completed successfully."
                                   ELSE "Pipeline failed."))]

OnErrorEvent(acc, ev, ts) == [acc EXCEPT !.logs = Append(@, LogLine(ts, "ERROR", ev.message))]

\* one iteration of the for loop
FoldStep(acc, ev, ts, runOrder) ==
    CASE ev.event = "run_start" -> OnRunStart(acc, ev, ts)
      [] ev.event = "pipeline_start" -> OnPipelineStart(acc, ev, ts, runOrder)
      [] ev.event = "stage_start" -> OnStageStart(acc, ev, ts)
      [] ev.event = "stage_end" -> OnStageEnd(acc, ev, ts)
      [] ev.event = "log" -> OnLog(acc, ev, ts)
      [] ev.event = "done" -> OnDoneEvent(acc, ev, ts)
      [] ev.event = "error" -> OnErrorEvent(acc, ev, ts)
      [] OTHER -> acc

RECURSIVE FoldLoop(_, _, _, _)
FoldLoop(acc, events, ts, runOrder) ==
    IF events = <<>> THEN acc
    ELSE FoldLoop(FoldStep(acc, Head(events), ts, runOrder), Tail(events), ts, runOrder)

\* Math.round((completedCount / total) * 100)
RoundPercent(count, total) == (200 * count + total) \div (2 * total)

\* the override taken for any done event
EndsInDone(events) ==
    /\ events # <<>>
    /\ Last(events).event = "done"

\* lastEv?.event === 'done' && lastEv.success
EndsInSuccess(events) ==
    /\ events # <<>>
    /\ Last(events).event = "done"
    /\ Last(events).success

\* stagesFromWsEvents(events, runOrder), run with the clock at `now`; the loop
\* is synchronous, so every line of one run is stamped within the same second
stagesFromWsEvents(events, runOrder, now) ==
    LET acc == FoldLoop(FoldStart(runOrder), events, Timestamp(now), runOrder)
        total == IF Len(acc.stageDetails) = 0 THEN 1 ELSE Len(acc.stageDetails)
        overallProgress == RoundPercent(acc.completedCount, total)
    IN
    [stages |-> acc.stageDetails,
     overallProgress |-> IF EndsInSuccess(events) THEN 100 ELSE overallProgress,
     logs |-> acc.logs]

(***************************************************************************)
(* The HTTP helpers of api/client.ts: what they make of a fetch Response.  *)
(* A body is an object with a detail field, an object without one, the     *)
(* JSON value null, or text that is not JSON.                              *)
(***************************************************************************)
DetailBody(d) == [json |-> TRUE, isNull |-> FALSE, detail |-> d]
EmptyObjectBody == [json |-> TRUE, isNull |-> FALSE, detail |-> Undefined]
NullBody == [json |-> TRUE, isNull |-> TRUE, detail |-> Undefined]
NotJsonBody == [json |-> FALSE, isNull |-> FALSE, detail |-> Undefined]

Response(status, statusText, body) ==
    [ok |-> status \in 200..299, status |-> status, statusText |-> statusText, body |-> body]

\* the message of the TypeError that reading a property of null throws
NullDetailError == "Cannot read properties of null (reading 'detail')"

\* a JavaScript string that counts as true
Truthy(str) == str # Undefined /\ str # ""

\* await res.json().catch(() => fallback)
JsonOr(res, fallback) == IF res.body.json THEN res.body ELSE fallback

Thrown(msg) == [threw |-> TRUE, message |-> msg, downloaded |-> FALSE]
Returned(dl) == [threw |-> FALSE, message |-> Undefined, downloaded |-> dl]

\* runPipeline: throw new Error(err.detail || res.statusText)
runPipeline(res) ==
    LET err == JsonOr(res, DetailBody(res.statusText)) IN
    IF res.ok THEN Returned(FALSE)
    ELSE IF err.isNull THEN Thrown(NullDetailError)
    ELSE Thrown(IF Truthy(err.detail) THEN err.detail ELSE res.statusText)

\* getRunStatus: throw new Error(detail ? `${res.status}: ${detail}` : res.statusText)
getRunStatus(res) ==
    LET body == JsonOr(res, EmptyObjectBody) IN
    IF res.ok THEN Returned(FALSE)
    ELSE IF body.isNull THEN Thrown(NullDetailError)
    ELSE Thrown(IF Truthy(body.detail) THEN ToString(res.status) \o ": " \o body.detail
                ELSE res.statusText)

\* downloadRunArtifact: throw new Error(detail || res.statusText), or the
\* click on the link made for the blob
downloadRunArtifact(res) ==
    LET body == JsonOr(res, EmptyObjectBody) IN
    IF res.ok THEN Returned(TRUE)
    ELSE IF body.isNull THEN Thrown(NullDetailError)
    ELSE Thrown(IF Truthy(body.detail) THEN body.detail ELSE res.statusText)

\* the responses the helpers are tried on
Responses ==
    {Response(200, "OK", EmptyObjectBody)}
        \cup {Response(404, "Not Found", b) :
                  b \in {DetailBody("not found"), EmptyObjectBody, NullBody, NotJsonBody}}

(***************************************************************************)
(* MonitorProgress: the status snapshots it polls and the summary of one.  *)
(***************************************************************************)
StageResult(ok, err) == [success |-> ok, error |-> err]

\* RunResultResponse bodies the status endpoint answers a poll of run rid with:
\* running with and without details, completed, failed in the second stage
Snapshots(rid) ==
    {[run_id |-> rid, status |-> "running", success |-> FALSE, error |-> Undefined,
      current_stage |-> "graph_traverser",
      stages |-> <<"graph_traverser", "chatml_converter">>, results |-> <<>>],
     [run_id |-> rid, status |-> "running", success |-> FALSE, error |-> Undefined,
      current_stage |-> Undefined],
     [run_id |-> rid, status |-> "completed", success |-> TRUE, error |-> Undefined,
      current_stage |-> Undefined,
      stages |-> <<"graph_traverser", "chatml_converter">>,
      results |-> <<StageResult(TRUE, Undefined), StageResult(TRUE, Undefined)>>],
     [run_id |-> rid, status |-> "failed", success |-> FALSE, error |-> "boom",
      current_stage |-> Undefined,
      stages |-> <<"graph_traverser", "chatml_converter">>,
      results |-> <<StageResult(TRUE, Undefined), StageResult(FALSE, "boom")>>]}

\* the body for a run that failed before any stage produced a result
EarlyFailure(rid) ==
    [run_id |-> rid, status |-> "failed", success |-> FALSE, error |-> "boom",
     current_stage |-> Undefined, results |-> <<>>]

\* the message of the Error getRunStatus throws on a non-success response
PollFailures ==
    {getRunStatus(Response(503, "Service Unavailable", DetailBody("unavailable"))).message}

\* res.stages ?? []
SnapshotStages(res) == IF "stages" \in DOMAIN res THEN res.stages ELSE <<>>
\* res.results ?? []
SnapshotResults(res) == IF "results" \in DOMAIN res THEN res.results ELSE <<>>

Successes(results) == Len(SelectSeq(results, LAMBDA r : r.success))

Max(a, b) == IF a >= b THEN a ELSE b

formatPhase(res) ==
    LET labels == [i \in 1..Len(SnapshotStages(res)) |-> Label(SnapshotStages(res)[i])]
        named == res.current_stage # Undefined /\ res.current_stage # ""
    IN
    IF res.status = "running"
    THEN IF named
         THEN "Phase: Running -- " \o Label(res.current_stage)
                  \o (IF labels # <<>> THEN " (" \o JoinArrow(labels) \o ")" ELSE "")
         ELSE "Phase: Running"
                  \o (IF labels # <<>> THEN " -- " \o JoinArrow(labels) ELSE "")
    ELSE IF res.status = "completed" THEN "Phase: Completed"
    ELSE IF res.status = "failed" THEN "Phase: Failed"
    ELSE "Status: " \o res.status

\* logMsg of one poll
PollSummary(res) ==
    LET completed == Successes(SnapshotResults(res))
        total == Max(Max(Len(SnapshotResults(res)), Len(SnapshotStages(res))), 1)
    IN
    "Poll: status=" \o res.status \o " -- " \o formatPhase(res)
        \o " (" \o ToString(completed) \o "/" \o ToString(total) \o " stages)"

\* the line addLog appends for msg with the clock at `now`
AddLogLine(msg, now) == Timestamp(now) \o " " \o msg

\* what Math.round gives for 0 / 0
NaN == -1

\* setStages of a terminal poll: one entry per result, named after runOrder[i]
TerminalStages(res, order) ==
    [i \in 1..Len(SnapshotResults(res)) |->
        [name |-> IF i <= Len(order) THEN Label(order[i]) ELSE Undefined,
         status |-> IF SnapshotResults(res)[i].success THEN "completed" ELSE "failed",
         progress |-> IF SnapshotResults(res)[i].success THEN 100 ELSE 0,
         error |-> SnapshotResults(res)[i].error]]

\* setOverallProgress of a terminal poll; res.results?.length ?? 1 divides
TerminalProgress(res) ==
    IF res.status = "completed" THEN 100
    ELSE IF "results" \notin DOMAIN res THEN RoundPercent(0, 1)
    ELSE IF Len(res.results) = 0 THEN NaN
    ELSE RoundPercent(Successes(res.results), Len(res.results))

\* the final line of a terminal poll
TerminalLine(res) ==
    IF res.status = "completed" THEN "Pipeline completed."
    ELSE "Pipeline failed: " \o (IF res.error = Undefined THEN "Unknown" ELSE res.error)

\* a test that takes only a completed run for finished
IsCompletedStatus(res) == res.status = "completed"

\* res.status === 'completed' || res.status === 'failed'
IsTerminalStatus(res) == res.status \in {"completed", "failed"}

(***************************************************************************)
(* MonitorProgress: the component.  It is rendered only on the monitor tab *)
(* (App.tsx); its state and refs live from mount to unmount.  pollRef      *)
(* holds the interval of the effect run that started polling: the run id   *)
(* and stage order its callback closed over, and whether it still fires.   *)
(***************************************************************************)
NoTimer == [set |-> FALSE, session |-> 0, runId |-> "", order |-> <<>>, active |-> FALSE]

\* the interval of polling session sid, whose callback closed over id and order
Timer(sid, id, order) ==
    [set |-> TRUE, session |-> sid, runId |-> id, order |-> order, active |-> TRUE]

\* names for the polling sessions that can be told apart at one time: those of
\* the requests awaiting a response, of the interval held and of the new one
Sessions == 1..(MaxInflight + 2)

NoSignal == [signals |-> 0, lines |-> 0]

\* the latest handler did not run the terminal branch
NoTerminal == [seen |-> FALSE]

\* state and refs of the component, with the observations its code feeds
MonState ==
    [stages |-> mStages, progress |-> mProgress, logs |-> mLogs, pollRef |-> pollRef,
     lastLogMsgRef |-> lastLogMsgRef, leaked |-> leaked, reclears |-> reclears,
     pollSeen |-> pollSeen, pollDone |-> pollDone, terminal |-> NoTerminal]

\* useState([]), useState(0), useState([]), useRef(null), useRef(null)
MountedFresh(M) ==
    [M EXCEPT !.stages = <<>>, !.progress = 0, !.logs = <<>>, !.pollRef = NoTimer,
              !.lastLogMsgRef = Null, !.pollSeen = <<>>]

\* config?.run_stages ?? [], for the props of App state A
RunOrderOf(A) == IF A.configObj = 0 THEN <<>> ELSE A.config.run_stages

\* clearInterval(pollRef.current) that leaves the handle in pollRef
ClearPollKeepsRef(M) ==
    IF M.pollRef.set
    THEN [M EXCEPT !.reclears = IF M.pollRef.active THEN @ ELSE @ + 1,
                   !.pollRef = [@ EXCEPT !.active = FALSE]]
    ELSE M

\* if (pollRef.current) { clearInterval(pollRef.current); pollRef.current = null }
ClearPoll(M) ==
    IF M.pollRef.set
    THEN [M EXCEPT !.reclears = IF M.pollRef.active THEN @ ELSE @ + 1,
                   !.pollRef = NoTimer]
    ELSE M

\* the effect resetting only when there is no run id
EffectResetsWithoutRunOnly(A) == A.lastRunId = Null

\* if (!runId || runOrder.length === 0)
EffectResets(A) == A.lastRunId = Null \/ A.lastRunId = "" \/ RunOrderOf(A) = <<>>

\* the body of the polling effect for the props of App state A, with the clock
\* at `now`: reset, or nothing in live mode, or the start of a polling session
PollEffect(M, A, now, sid) ==
    IF EffectResets(A)
    THEN [M EXCEPT !.stages = PendingStages(RunOrderOf(A)), !.progress = 0, !.logs = <<>>,
                   !.lastLogMsgRef = Null, !.pollSeen = <<>>]
    ELSE IF A.wsEvents # <<>> THEN M
    ELSE [M EXCEPT !.logs = Append(@, AddLogLine("Watching run " \o A.lastRunId
                                                     \o ". Polling for status...", now)),
                   !.lastLogMsgRef = Null,
                   !.pollSeen = <<>>,
                   !.leaked = IF M.pollRef.set /\ M.pollRef.active
                              THEN @ \cup {M.pollRef} ELSE @,
                   !.pollDone = [@ EXCEPT ![sid] = NoSignal],
                   !.pollRef = Timer(sid, A.lastRunId, RunOrderOf(A))]

\* the dependencies [runId, runOrder, onDone, addLog, useLiveEvents] differ from
\* those of the previous render; without a config, runOrder is a new array on
\* every render, and with one it is the run_stages array of the config object
DepsChanged(A) ==
    \/ A.lastRunId # lastRunId
    \/ A.configObj # configObj
    \/ A.configObj = 0
    \/ (A.wsEvents # <<>>) # (wsEvents # <<>>)

\* the least session name that no pending request and no interval carries
FreshSession(M) ==
    LET used == {inflight[i].session : i \in 1..Len(inflight)}
                    \cup {tm.session : tm \in M.leaked \cup {M.pollRef}}
    IN
    IF Sessions \ used = {} THEN MaxInflight + 2
    ELSE CHOOSE sid \in Sessions \ used : \A other \in Sessions \ used : sid <= other

\* The component after the render that follows a handler which left App state A
\* and component state M.  The cleanup an effect run returns is the one of a run
\* that started polling; after any other run pollRef is empty, and clearing is
\* then a no-op, so the cleanup is applied whenever the effect is left.
MonitorAfter(A, M, now) ==
    LET was == activeTab = "monitor"
        stays == A.activeTab = "monitor"
        left == IF was /\ (~stays \/ DepsChanged(A)) THEN ClearPoll(M) ELSE M
        sid == FreshSession(M)
    IN
    IF ~stays THEN MountedFresh(left)
    ELSE IF ~was THEN PollEffect(MountedFresh(left), A, now, sid)
    ELSE IF DepsChanged(A) THEN PollEffect(left, A, now, sid)
    ELSE left

\* a response that arrives after its component was unmounted finds only
\* setters that do nothing and a pollRef that the cleanup emptied
Orphaned(fl) == [i \in 1..Len(fl) |-> [fl[i] EXCEPT !.alive = FALSE]]

RenderMonitor(A, M, fl) ==
    LET N == MonitorAfter(A, M, clock) IN
    /\ mStages' = N.stages
    /\ mProgress' = N.progress
    /\ mLogs' = N.logs
    /\ pollRef' = N.pollRef
    /\ lastLogMsgRef' = N.lastLogMsgRef
    /\ leaked' = N.leaked
    /\ reclears' = N.reclears
    /\ pollSeen' = N.pollSeen
    /\ pollDone' = N.pollDone
    /\ terminalSet' = N.terminal
    /\ inflight' = IF activeTab = "monitor" /\ A.activeTab # "monitor" THEN Orphaned(fl) ELSE fl

(***************************************************************************)
(* MonitorProgress: what it shows.                                         *)
(***************************************************************************)
useLiveEvents == wsEvents # <<>>

\* config?.run_stages ?? []
runOrder == RunOrderOf(AppState)

\* liveDerived is null or the fold of the log
LiveDerivedIsNull == ~useLiveEvents \/ runOrder = <<>>

liveDerived == stagesFromWsEvents(wsEvents, runOrder, clock)

displayStages ==
    IF ~LiveDerivedIsNull THEN liveDerived.stages
    ELSE IF Len(mStages) > 0 THEN mStages
    ELSE PendingStages(runOrder)

displayProgress == IF ~LiveDerivedIsNull THEN liveDerived.overallProgress ELSE mProgress

displayLogs == IF ~LiveDerivedIsNull THEN liveDerived.logs ELSE mLogs

(***************************************************************************)
(* Initial state: App on the configure tab, no socket created.             *)
(***************************************************************************)
AppInit ==
    /\ activeTab = "configure"
    /\ lastRunId = Null
    /\ lastResult = NullObject
    /\ config = NullObject
    /\ wsEvents = <<>>
    /\ isWsConnected = Undefined
    /\ configObj = 0
    /\ selectedStages = DefaultSelectedStages
    /\ toggled = ""
    /\ running = FALSE
    /\ error = Null
    /\ nOpened = 0
    /\ readyState = [c \in Chans |-> "NONE"]
    /\ closed = [c \in Chans |-> FALSE]
    /\ runId = [c \in Chans |-> ""]
    /\ sent = [c \in Chans |-> 0]
    /\ cfgOf = [c \in Chans |-> NullObject]
    /\ ownerAlive = [c \in Chans |-> FALSE]
    /\ inbound = [c \in Chans |-> <<>>]
    /\ calls = [c \in Chans |-> <<>>]
    /\ wsCloseCalls = [c \in Chans |-> 0]
    /\ closeFnCalls = [c \in Chans |-> 0]
    /\ lateCall = [c \in Chans |-> FALSE]
    /\ transportErrs = [c \in Chans |-> 0]

\* MonitorProgress is not mounted, no interval was created, no poll issued
MonitorIdle ==
    /\ mStages = <<>>
    /\ mProgress = 0
    /\ mLogs = <<>>
    /\ pollRef = NoTimer
    /\ lastLogMsgRef = Null
    /\ leaked = {}
    /\ inflight = <<>>
    /\ pollsIssued = 0
    /\ reclears = 0
    /\ pollDone = [sid \in Sessions |-> NoSignal]
    /\ pollSeen = <<>>
    /\ terminalSet = NoTerminal

NoView == [valid |-> FALSE, events |-> <<>>, order |-> <<>>, at |-> 0, out |-> Null]

FoldIdle ==
    /\ fEvents = <<>>
    /\ fRunOrder = <<>>
    /\ clock = 0
    /\ fCur = NoView
    /\ fPrev = NoView

\* no runPipeline call is pending, no helper of api/client.ts was called
ClientIdle ==
    /\ fetching = {}
    /\ settled = FALSE
    /\ http = <<>>

Init == AppInit /\ FoldIdle /\ MonitorIdle /\ ClientIdle

(***************************************************************************)
(* The re-render that ends every handler.  ConfigurePipeline is rendered   *)
(* only on the configure tab (App.tsx): leaving the tab unmounts it, its   *)
(* state is dropped, and a later mount starts from the initial state.      *)
(***************************************************************************)
Render(A, alive) ==
    /\ activeTab' = A.activeTab
    /\ lastRunId' = A.lastRunId
    /\ lastResult' = A.lastResult
    /\ config' = A.config
    /\ wsEvents' = A.wsEvents
    /\ isWsConnected' = A.isWsConnected
    /\ configObj' = A.configObj
    /\ IF A.activeTab = "configure"
       THEN /\ running' = A.running
            /\ error' = A.error
            /\ selectedStages' = selectedStages
            /\ toggled' = ""
            /\ ownerAlive' = alive
       ELSE /\ running' = FALSE
            /\ error' = Null
            /\ selectedStages' = DefaultSelectedStages
            /\ toggled' = ""
            /\ ownerAlive' = [c \in Chans |-> FALSE]

\* the number of frames delivered so far, over all sockets
RECURSIVE SumLen(_, _)
SumLen(f, n) == IF n = 0 THEN 0 ELSE Len(f[n]) + SumLen(f, n - 1)
FramesDelivered == SumLen(inbound, MaxRuns)

(***************************************************************************)
(* close(), as the tail of a handler of socket c or as the returned        *)
(* function.  ws.close() takes no argument here and so cannot throw; the   *)
(* try/catch around it never catches.                                      *)
(***************************************************************************)
CloseEffect(c, invoked) ==
    IF invoked /\ ~CloseReturnsEarly(c)
    THEN /\ closed' = [closed EXCEPT ![c] = TRUE]
         /\ wsCloseCalls' = [wsCloseCalls EXCEPT ![c] = @ + 1]
    ELSE UNCHANGED <<closed, wsCloseCalls>>

\* readyState of socket c after a handler that may have run close()
ReadyStateAfter(c, rs, invoked) ==
    IF invoked /\ ~CloseReturnsEarly(c) THEN SocketClose(rs) ELSE rs

\* the callbacks cbs, invoked for frame k of socket c (0: no frame), as observed
Observe(c, cbs, k) ==
    /\ calls' = [calls EXCEPT ![c] = @ \o [i \in 1..Len(cbs) |->
                     [cb |-> cbs[i].cb, arg |-> cbs[i].arg, frame |-> k]]]
    /\ lateCall' = [lateCall EXCEPT ![c] = @ \/ (cbs # <<>> /\ closeFnCalls[c] > 0)]

\* the record kept of a delivered frame: its data when the channel was not yet
\* closed, and only the fact of its arrival otherwise
Received(c, data) ==
    IF closed[c] THEN [data |-> "late", live |-> FALSE] ELSE [data |-> data, live |-> TRUE]

RECURSIVE Sum(_, _)
Sum(f, n) == IF n = 0 THEN 0 ELSE f[n] + Sum(f, n - 1)
CloseCallsMade == Sum(closeFnCalls, MaxRuns)

(***************************************************************************)
(* Actions.                                                                *)
(***************************************************************************)
\* the Header's tab triggers: onValueChange={(v) => setActiveTab(v)}
SelectTab(t) ==
    /\ t # activeTab
    /\ Render([AppState EXCEPT !.activeTab = t], ownerAlive)
    /\ RenderMonitor([AppState EXCEPT !.activeTab = t], MonState, inflight)
    /\ UNCHANGED <<nOpened, readyState, closed, runId, sent, cfgOf, obsVars, foldVars, reqVars,
                   pollsIssued>>

\* ConfigurePipeline.handleRun; App passes setWsEvents and onDone, so the run is live
HandleRun ==
    LET c == nOpened + 1 IN
    /\ activeTab = "configure"
    /\ ~running
    /\ nOpened < MaxRuns
    /\ Render([AppState EXCEPT !.error = Null, !.running = TRUE, !.wsEvents = <<>>],
              [ownerAlive EXCEPT ![c] = TRUE])
    /\ RenderMonitor([AppState EXCEPT !.error = Null, !.running = TRUE, !.wsEvents = <<>>],
                     MonState, inflight)
    /\ nOpened' = c
    /\ readyState' = [readyState EXCEPT ![c] = "CONNECTING"]
    /\ cfgOf' = [cfgOf EXCEPT ![c] = buildConfig]
    /\ UNCHANGED <<closed, runId, sent, obsVars, foldVars, reqVars, pollsIssued>>

\* ws.onopen
WsOpen(c) ==
    /\ readyState[c] = "CONNECTING"
    /\ readyState' = [readyState EXCEPT ![c] = "OPEN"]
    /\ sent' = [sent EXCEPT ![c] = @ + 1]
    /\ UNCHANGED <<appVars, cpVars, nOpened, closed, runId, cfgOf, ownerAlive, obsVars, foldVars, reqVars,
                   monVars>>

\* ws.onmessage with ev.data = data; a frame already queued may still be
\* dispatched after close() was called
Deliver(c, data) ==
    LET ignored == MessageIgnored(c)
        cbs == IF ignored THEN <<>> ELSE MessageCallbacks(runId[c], data)
        closes == ~ignored /\ MessageCloses(data)
        k == Len(inbound[c]) + 1
    IN
    /\ readyState[c] \in {"OPEN", "CLOSING"}
    /\ inbound' = [inbound EXCEPT ![c] = Append(@, Received(c, data))]
    /\ Observe(c, cbs, k)
    /\ runId' = [runId EXCEPT ![c] =
                     IF ignored \/ JSONParse(data).threw THEN @
                     ELSE RunIdAfter(@, JSONParse(data).value)]
    /\ Render(ApplyCallbacks(AppState, c, cbs), ownerAlive)
    /\ RenderMonitor(ApplyCallbacks(AppState, c, cbs), MonState, inflight)
    /\ CloseEffect(c, closes)
    /\ readyState' = [readyState EXCEPT ![c] = ReadyStateAfter(c, @, closes)]
    /\ UNCHANGED <<nOpened, sent, cfgOf, closeFnCalls, transportErrs, foldVars, reqVars,
                   pollsIssued>>

\* a frame of the bounded supply arrives on socket c
WsMessage(c, data) ==
    /\ FramesDelivered < MaxFrames
    /\ Deliver(c, data)

\* ws.onerror: a transport-level error; the connection has failed and only the
\* close event follows
WsError(c) ==
    LET fires == ~ErrorIgnored(c)
        cbs == IF fires THEN OnerrorCallbacks ELSE <<>>
        closes == fires /\ OnerrorCloses
    IN
    /\ readyState[c] \in {"CONNECTING", "OPEN", "CLOSING"}
    /\ transportErrs' = [transportErrs EXCEPT ![c] = IF closed[c] THEN @ ELSE @ + 1]
    /\ Observe(c, cbs, 0)
    /\ Render(ApplyCallbacks(AppState, c, cbs), ownerAlive)
    /\ RenderMonitor(ApplyCallbacks(AppState, c, cbs), MonState, inflight)
    /\ CloseEffect(c, closes)
    /\ readyState' = [readyState EXCEPT ![c] = "FAILED"]
    /\ UNCHANGED <<nOpened, runId, sent, cfgOf, inbound, closeFnCalls, foldVars, reqVars,
                   pollsIssued>>

\* ws.onclose: the socket reached CLOSED (remote close, failure, or the end of
\* the closing handshake): if (!closed) close()
WsClosed(c) ==
    /\ readyState[c] \in {"CONNECTING", "OPEN", "CLOSING", "FAILED"}
    /\ CloseEffect(c, ~closed[c])
    /\ readyState' = [readyState EXCEPT ![c] = "CLOSED"]
    /\ UNCHANGED <<appVars, cpVars, nOpened, runId, sent, cfgOf, ownerAlive, inbound, calls,
                   closeFnCalls, lateCall, transportErrs, foldVars, reqVars, monVars>>

\* the caller invokes the function runPipelineViaWebSocket returned
CallClose(c) ==
    /\ c <= nOpened
    /\ CloseCallsMade < MaxCloseCalls
    /\ closeFnCalls' = [closeFnCalls EXCEPT ![c] = @ + 1]
    /\ CloseEffect(c, TRUE)
    /\ readyState' = [readyState EXCEPT ![c] = ReadyStateAfter(c, @, TRUE)]
    /\ UNCHANGED <<appVars, cpVars, nOpened, runId, sent, cfgOf, ownerAlive, inbound, calls,
                   lateCall, transportErrs, foldVars, reqVars, monVars>>

(***************************************************************************)
(* MonitorProgress: the interval callback.  A tick issues a status request *)
(* and suspends at the await; the response, or the failure, resumes it.    *)
(***************************************************************************)
Remove(s, i) == SubSeq(s, 1, i - 1) \o SubSeq(s, i + 1, Len(s))

\* the intervals that still fire
ActiveTimers == (IF pollRef.set /\ pollRef.active THEN {pollRef} ELSE {}) \cup leaked

\* a dedup test that lets every summary through
SummaryAlwaysNew(M, logMsg) == TRUE

\* logMsg !== lastLogMsgRef.current
SummaryIsNew(M, logMsg) == logMsg # M.lastLogMsgRef

\* if (logMsg !== lastLogMsgRef.current) { lastLogMsgRef.current = logMsg; addLog(logMsg) }
LogSummary(M, logMsg, now) ==
    IF SummaryIsNew(M, logMsg)
    THEN [M EXCEPT !.lastLogMsgRef = logMsg,
                   !.logs = Append(@, AddLogLine(logMsg, now)),
                   !.pollSeen = Append(@, [text |-> logMsg, appended |-> TRUE,
                                           at |-> Len(M.logs) + 1])]
    ELSE [M EXCEPT !.pollSeen = Append(@, [text |-> logMsg, appended |-> FALSE,
                                           at |-> Len(M.logs)])]

\* the branch of a completed or failed status, up to the call of onDone
OnTerminalPoll(M, res, order, now) ==
    [ClearPoll(M) EXCEPT !.stages = TerminalStages(res, order),
                         !.progress = TerminalProgress(res),
                         !.terminal = [seen |-> TRUE, res |-> res, order |-> order,
                                       stages |-> TerminalStages(res, order),
                                       progress |-> TerminalProgress(res)],
                         !.logs = Append(@, AddLogLine(TerminalLine(res), now))]

\* the callback after the await, on the component that issued the request
PollContinuation(M, res, order, now) ==
    LET logged == LogSummary(M, PollSummary(res), now) IN
    IF IsTerminalStatus(res) THEN OnTerminalPoll(logged, res, order, now) ELSE logged

\* a catch block that also gives up polling
PollCatchStops(M, msg, now) ==
    [ClearPoll(M) EXCEPT !.logs = Append(@, AddLogLine("Poll error: " \o msg, now))]

\* the catch block: addLog(`Poll error: ${msg}`)
PollCatch(M, msg, now) == [M EXCEPT !.logs = Append(@, AddLogLine("Poll error: " \o msg, now))]

\* what a response adds to the record of its polling session: an onDone call,
\* and a final line when the component that asked is still mounted
Signalled(M, p, res) ==
    IF IsTerminalStatus(res)
    THEN [M EXCEPT !.pollDone[p.session] =
                       [signals |-> @.signals + 1,
                        lines |-> @.lines + (IF p.alive THEN 1 ELSE 0)]]
    ELSE M

\* setInterval fires the callback of interval tm: getRunStatus(runId) is sent
PollTick(tm) ==
    /\ tm \in ActiveTimers
    /\ pollsIssued < MaxPolls
    /\ Len(inflight) < MaxInflight
    /\ inflight' = Append(inflight, [session |-> tm.session, runId |-> tm.runId,
                                     order |-> tm.order, alive |-> activeTab = "monitor"])
    /\ pollsIssued' = pollsIssued + 1
    /\ UNCHANGED <<appVars, cpVars, wsVars, obsVars, foldVars, reqVars, mStages, mProgress, mLogs,
                   pollRef, lastLogMsgRef, leaked, reclears, pollDone, pollSeen,
                   terminalSet>>

\* the status request i is answered with snapshot res
PollResolve(i, res) ==
    LET p == inflight[i]
        M == IF p.alive THEN PollContinuation(MonState, res, p.order, clock) ELSE MonState
        A == IF IsTerminalStatus(res) THEN AppHandleDone(AppState, res) ELSE AppState
    IN
    /\ Render(A, ownerAlive)
    /\ RenderMonitor(A, Signalled(M, p, res), Remove(inflight, i))
    /\ UNCHANGED <<nOpened, readyState, closed, runId, sent, cfgOf, obsVars, foldVars, reqVars,
                   pollsIssued>>

\* the status request i fails: getRunStatus throws an Error with message msg
PollReject(i, msg) ==
    LET p == inflight[i]
        M == IF p.alive THEN PollCatch(MonState, msg, clock) ELSE MonState
    IN
    /\ Render(AppState, ownerAlive)
    /\ RenderMonitor(AppState, M, Remove(inflight, i))
    /\ UNCHANGED <<nOpened, readyState, closed, runId, sent, cfgOf, obsVars, foldVars, reqVars,
                   pollsIssued>>

(***************************************************************************)
(* ConfigurePipeline: the stage tiles.                                     *)
(***************************************************************************)
Includes(s, x) == \E i \in 1..Len(s) : s[i] = x

\* a toggle without the early return for evaluator
toggleStageAny(prev, id) ==
    IF Includes(prev, id) THEN SelectSeq(prev, LAMBDA s : s # id) ELSE Append(prev, id)

\* toggleStage: if (id === 'evaluator') return, then the updater
toggleStage(prev, id) ==
    IF id = "evaluator" THEN prev
    ELSE IF Includes(prev, id) THEN SelectSeq(prev, LAMBDA s : s # id)
    ELSE Append(prev, id)

\* a call of toggleStage(id) on the mounted ConfigurePipeline, as the click on
\* the tile of stage id makes it
ToggleStage(id) ==
    /\ activeTab = "configure"
    /\ selectedStages' = toggleStage(selectedStages, id)
    /\ toggled' = id
    /\ UNCHANGED <<appVars, running, error, wsVars, obsVars, foldVars, reqVars, monVars>>

\* the object an export leaves in the config state of App
ExportObj == MaxRuns + 1

\* handleExport: buildConfig, the client-side file save, onExportConfig?.(config);
\* App passes onExportConfig={(cfg) => setConfig(cfg)}
HandleExport ==
    LET A == [AppState EXCEPT !.config = buildConfig, !.configObj = ExportObj] IN
    /\ activeTab = "configure"
    /\ Render(A, ownerAlive)
    /\ RenderMonitor(A, MonState, inflight)
    /\ UNCHANGED <<nOpened, readyState, closed, runId, sent, cfgOf, obsVars, foldVars,
                   reqVars, pollsIssued>>

\* The application.  ConfigurePipeline.handleRun discards the function
\* runPipelineViaWebSocket returns, so the application never calls close().
Next ==
    \/ \E t \in {"configure", "monitor", "results"} : SelectTab(t)
    \/ HandleRun
    \/ \E c \in Chans : WsOpen(c)
    \/ \E c \in Chans, data \in Frames : WsMessage(c, data)
    \/ \E c \in Chans : WsError(c)
    \/ \E c \in Chans : WsClosed(c)

Spec == Init /\ [][Next]_vars

(***************************************************************************)
(* The transport client's contract: one socket, created by a first         *)
(* handleRun, driven by any frames, transport errors and close events, and *)
(* a caller that may invoke the returned close function at any moment.     *)
(***************************************************************************)
ChannelInit ==
    /\ activeTab = "configure"
    /\ lastRunId = Null
    /\ lastResult = NullObject
    /\ config = NullObject
    /\ wsEvents = <<>>
    /\ isWsConnected = Undefined
    /\ configObj = 0
    /\ selectedStages = DefaultSelectedStages
    /\ toggled = ""
    /\ running = TRUE
    /\ error = Null
    /\ nOpened = 1
    /\ readyState = [c \in Chans |-> IF c = 1 THEN "CONNECTING" ELSE "NONE"]
    /\ closed = [c \in Chans |-> FALSE]
    /\ runId = [c \in Chans |-> ""]
    /\ sent = [c \in Chans |-> 0]
    /\ cfgOf = [c \in Chans |-> IF c = 1 THEN buildConfig ELSE NullObject]
    /\ ownerAlive = [c \in Chans |-> c = 1]
    /\ inbound = [c \in Chans |-> <<>>]
    /\ calls = [c \in Chans |-> <<>>]
    /\ wsCloseCalls = [c \in Chans |-> 0]
    /\ closeFnCalls = [c \in Chans |-> 0]
    /\ lateCall = [c \in Chans |-> FALSE]
    /\ transportErrs = [c \in Chans |-> 0]
    /\ FoldIdle
    /\ MonitorIdle
    /\ ClientIdle

ChannelNext ==
    \/ WsOpen(1)
    \/ \E data \in Frames : WsMessage(1, data)
    \/ WsError(1)
    \/ WsClosed(1)
    \/ CallClose(1)

ChannelSpec == ChannelInit /\ [][ChannelNext]_vars

(***************************************************************************)
(* PollSpec: the application after a first handleRun, with MonitorProgress *)
(* polling: any frames and transport events on the socket, the operator    *)
(* changing tabs, interval ticks, and status requests answered or failing  *)
(* in any order.                                                           *)
(***************************************************************************)
\* What the service sends while the component polls: any part, in this
\* order, of a run id, a changed run id, an event that fills the live log and
\* the end of the run.
PollScript ==
    <<RunStart("r1"), RunStart("r2"), StageStart("graph_traverser"), Done(TRUE)>>

\* the socket receives entry k of the script, after entries before it only
ServiceFrame(k) ==
    /\ \A j \in 1..Len(inbound[1]) :
          \/ ~inbound[1][j].live
          \/ inbound[1][j].data \in {JsonText(PollScript[i]) : i \in 1..(k - 1)}
    /\ WsMessage(1, JsonText(PollScript[k]))

PollNext ==
    \/ WsOpen(1)
    \/ \E k \in 1..Len(PollScript) : ServiceFrame(k)
    \/ WsError(1)
    \/ WsClosed(1)
    \/ \E t \in {"configure", "monitor", "results"} : SelectTab(t)
    \/ \E tm \in ActiveTimers : PollTick(tm)
    \/ \E i \in 1..Len(inflight) : \E res \in Snapshots(inflight[i].runId) : PollResolve(i, res)
    \/ \E i \in 1..Len(inflight) : \E msg \in PollFailures : PollReject(i, msg)

PollSpec == ChannelInit /\ [][PollNext]_vars

(***************************************************************************)
(* LiveRunSpec: one live run of a well-behaved service.  The operator      *)
(* chooses stages and submits once; the service runs the stages of the     *)
(* submitted configuration in order, each with success, and reports done.  *)
(***************************************************************************)
RECURSIVE StageEvents(_)
StageEvents(S) ==
    IF S = <<>> THEN <<>>
    ELSE <<StageStart(Head(S)), StageEnd(Head(S), TRUE, Undefined)>> \o StageEvents(Tail(S))

\* the lifecycle events of a successful run of the stages S under run id rid
SuccessfulRun(rid, S) ==
    <<RunStart(rid), PipelineStart(S)>> \o StageEvents(S) \o <<Done(TRUE)>>

\* the service sends the next event of the run
ServerSend ==
    LET script == SuccessfulRun("r1", cfgOf[1].run_stages)
        k == Len(inbound[1]) + 1
    IN
    /\ nOpened = 1
    /\ k <= Len(script)
    /\ Deliver(1, JsonText(script[k]))

\* the one submission
SubmitOnce ==
    /\ nOpened = 0
    /\ HandleRun

LiveRunNext ==
    \/ \E id \in {"graph_traverser", "chatml_converter"} : ToggleStage(id)
    \/ SubmitOnce
    \/ WsOpen(1)
    \/ ServerSend
    \/ WsClosed(1)
    \/ \E t \in {"configure", "monitor", "results"} : SelectTab(t)
    \/ \E tm \in ActiveTimers : PollTick(tm)
    \/ \E i \in 1..Len(inflight) : \E res \in Snapshots(inflight[i].runId) : PollResolve(i, res)
    \/ \E i \in 1..Len(inflight) : \E msg \in PollFailures : PollReject(i, msg)

LiveRunSpec == Init /\ [][LiveRunNext]_vars

(***************************************************************************)
(* ConfigureSpec: the operator at the configuration view, before, during   *)
(* and after one live run: stage toggles, exports, one submission, tab     *)
(* changes, and the events of the run arriving.                            *)
(***************************************************************************)
ConfigureNext ==
    \/ \E id \in {STAGE_ORDER[i] : i \in 1..Len(STAGE_ORDER)} : ToggleStage(id)
    \/ HandleExport
    \/ SubmitOnce
    \/ WsOpen(1)
    \/ ServerSend
    \/ \E t \in {"configure", "monitor", "results"} : SelectTab(t)

ConfigureSpec == Init /\ [][ConfigureNext]_vars

(***************************************************************************)
(* Request/response mode: ConfigurePipeline under a host that passes onRun *)
(* but not both setWsEvents and onDone.  handleRun then submits through    *)
(* runPipeline, and MonitorProgress, whose event log stays empty, follows  *)
(* the run by polling.  The host is App without those two props.           *)
(***************************************************************************)
\* RunResponse bodies of a successful submission call for submission c
RunResponse(id, status, message) == [run_id |-> id, status |-> status, message |-> message]

RunResponses(c) ==
    {RunResponse(IF c = 1 THEN "r1" ELSE "r2", "accepted", Undefined),
     RunResponse(Undefined, "rejected", "quota exceeded"),
     RunResponse(Undefined, "rejected", Undefined)}

\* the messages of the Errors runPipeline throws on a non-success response
RunFailures == {runPipeline(Response(404, "Not Found", DetailBody("not found"))).message}

\* a failure text that ignores the message of the response
RunFailedAlways(res) == "Run failed"

\* res.message || 'Run failed'
RunFailureMessage(res) == IF Truthy(res.message) THEN res.message ELSE "Run failed"

\* handleRun without setWsEvents/onDone: the call of runPipeline(config, true)
HandleRunRequest ==
    LET c == nOpened + 1
        A == [AppState EXCEPT !.error = Null, !.running = TRUE]
    IN
    /\ activeTab = "configure"
    /\ ~running
    /\ nOpened < MaxRuns
    /\ Render(A, [ownerAlive EXCEPT ![c] = TRUE])
    /\ RenderMonitor(A, MonState, inflight)
    /\ nOpened' = c
    /\ cfgOf' = [cfgOf EXCEPT ![c] = buildConfig]
    /\ fetching' = fetching \cup {c}
    /\ UNCHANGED <<readyState, closed, runId, sent, obsVars, foldVars, pollsIssued,
                   settled, http>>

\* .then(res => res.run_id ? onRun(res.run_id, config) : setError(...)) and
\* .finally(() => setRunning(false)), for the submission c
AfterRunResponse(A, c, res) ==
    LET answered == IF Truthy(res.run_id)
                    THEN [AppHandleRun(A, res.run_id, cfgOf[c]) EXCEPT !.configObj = c]
                    ELSE IF ownerAlive[c] THEN [A EXCEPT !.error = RunFailureMessage(res)]
                    ELSE A
    IN
    IF ownerAlive[c] THEN [answered EXCEPT !.running = FALSE] ELSE answered

\* .catch(e => setError(e.message)) and .finally(() => setRunning(false))
AfterRunFailure(A, c, msg) ==
    IF ownerAlive[c] THEN [A EXCEPT !.error = msg, !.running = FALSE] ELSE A

\* the promise of submission c resolves with the body res
RunPipelineResolves(c, res) ==
    /\ c \in fetching
    /\ fetching' = fetching \ {c}
    /\ Render(AfterRunResponse(AppState, c, res), ownerAlive)
    /\ RenderMonitor(AfterRunResponse(AppState, c, res), MonState, inflight)
    /\ UNCHANGED <<nOpened, readyState, closed, runId, sent, cfgOf, obsVars, foldVars,
                   pollsIssued, settled, http>>

\* the promise of submission c rejects with an Error of message msg
RunPipelineRejects(c, msg) ==
    /\ c \in fetching
    /\ fetching' = fetching \ {c}
    /\ Render(AfterRunFailure(AppState, c, msg), ownerAlive)
    /\ RenderMonitor(AfterRunFailure(AppState, c, msg), MonState, inflight)
    /\ UNCHANGED <<nOpened, readyState, closed, runId, sent, cfgOf, obsVars, foldVars,
                   pollsIssued, settled, http>>

\* a status the code treats as neither running nor terminal
QueuedSnapshot(rid) ==
    [run_id |-> rid, status |-> "queued", success |-> FALSE, error |-> Undefined,
     current_stage |-> Undefined]

\* what the status endpoint answers: a run that has reached its terminal
\* status keeps it
StatusAnswers(rid) ==
    IF settled
    THEN {res \in Snapshots(rid) : res.status \in {"completed", "failed"}}
             \cup {EarlyFailure(rid)}
    ELSE {res \in Snapshots(rid) : res.status = "running"} \cup {QueuedSnapshot(rid)}

\* the run started by an accepted submission reaches its terminal status while
\* the interval can still fire within the bound on polls
ServiceSettles ==
    /\ lastRunId # Null
    /\ ~settled
    /\ pollsIssued < MaxPolls
    /\ settled' = TRUE
    /\ UNCHANGED <<appVars, cpVars, wsVars, obsVars, foldVars, monVars, fetching, http>>

\* the status request i is answered by the service
StatusAnswer(i) == \E res \in StatusAnswers(inflight[i].runId) : PollResolve(i, res)

\* a status request fails in transport while the run is under way
StatusFailure(i) == ~settled /\ \E msg \in PollFailures : PollReject(i, msg)

\* the component stays mounted unless the code itself leaves the tab
RequestLiveNext ==
    \/ HandleRunRequest
    \/ \E c \in Chans : \E res \in RunResponses(c) : RunPipelineResolves(c, res)
    \/ \E c \in Chans : \E msg \in RunFailures : RunPipelineRejects(c, msg)
    \/ ServiceSettles
    \/ \E tm \in ActiveTimers : PollTick(tm)
    \/ \E i \in 1..Len(inflight) : StatusAnswer(i)
    \/ \E i \in 1..Len(inflight) : StatusFailure(i)

\* the interval fires every two seconds and every request is answered; a tick
\* always adds to pollsIssued and an answer always shortens inflight
RequestLiveSpec ==
    /\ Init
    /\ [][RequestLiveNext]_vars
    /\ WF_pollsIssued(\E tm \in ActiveTimers : PollTick(tm))
    /\ WF_inflight(\E i \in 1..Len(inflight) : StatusAnswer(i))

\* the submissions alone, with an operator who picks stages and changes tabs
\* at any moment, unmounting ConfigurePipeline while a response is awaited
RequestNext ==
    \/ \E id \in {"graph_traverser", "chatml_converter"} : ToggleStage(id)
    \/ HandleRunRequest
    \/ \E c \in Chans : \E res \in RunResponses(c) : RunPipelineResolves(c, res)
    \/ \E c \in Chans : \E msg \in RunFailures : RunPipelineRejects(c, msg)
    \/ \E t \in {"configure", "monitor", "results"} : SelectTab(t)

RequestSpec == Init /\ [][RequestNext]_vars

(***************************************************************************)
(* ClientSpec: the HTTP helpers of api/client.ts called on any response.   *)
(***************************************************************************)
ClientCall(fn, res, outcome) ==
    /\ Len(http) < MaxCalls
    /\ http' = Append(http, [fn |-> fn, response |-> res, outcome |-> outcome])
    /\ UNCHANGED <<appVars, cpVars, wsVars, obsVars, foldVars, monVars, fetching, settled>>

ClientNext ==
    \/ \E res \in Responses : ClientCall("runPipeline", res, runPipeline(res))
    \/ \E res \in Responses : ClientCall("getRunStatus", res, getRunStatus(res))
    \/ \E res \in Responses : ClientCall("downloadRunArtifact", res, downloadRunArtifact(res))

ClientSpec == Init /\ [][ClientNext]_vars

(***************************************************************************)
(* FoldSpec: the fold applied to a growing event log.  MonitorProgress     *)
(* recomputes liveDerived when wsEvents changes and when it is mounted     *)
(* again on the same log; the clock advances in between.                   *)
(***************************************************************************)
RunOrders == {<<"graph_traverser">>, <<"graph_traverser", "chatml_converter">>}

FoldEvents ==
    {RunStart("r1"),
     PipelineStart(<<"graph_traverser", "chatml_converter">>),
     PipelineStart(<<"custom", "graph_traverser">>),
     PipelineStartBare,
     StageStart("graph_traverser"), StageStart("ghost"),
     StageEnd("graph_traverser", TRUE, Undefined),
     StageEnd("graph_traverser", FALSE, "boom"),
     StageEnd("chatml_converter", TRUE, Undefined),
     StageEnd("ghost", TRUE, Undefined),
     LogEvent("WARNING", "slow"),
     Done(TRUE), Done(FALSE), ErrorEvent("boom")}

Computed(events, order, now) ==
    [valid |-> TRUE, events |-> events, order |-> order, at |-> now,
     out |-> stagesFromWsEvents(events, order, now)]

FoldInit ==
    /\ AppInit
    /\ MonitorIdle
    /\ ClientIdle
    /\ fEvents = <<>>
    /\ fRunOrder \in RunOrders
    /\ clock = 0
    /\ fCur = NoView
    /\ fPrev = NoView

\* setWsEvents((prev) => [...prev, e]) and the recomputation it causes
FoldAppend(e) ==
    /\ Len(fEvents) < MaxEvents
    /\ fEvents' = Append(fEvents, e)
    /\ fPrev' = fCur
    /\ fCur' = Computed(fEvents', fRunOrder, clock)
    /\ UNCHANGED <<fRunOrder, clock, appVars, cpVars, wsVars, obsVars, monVars, reqVars>>

\* MonitorProgress mounted again on the same log: useMemo computes afresh
FoldAgain ==
    /\ fEvents # <<>>
    /\ fPrev' = fCur
    /\ fCur' = Computed(fEvents, fRunOrder, clock)
    /\ UNCHANGED <<fEvents, fRunOrder, clock, appVars, cpVars, wsVars, obsVars, monVars, reqVars>>

Tick ==
    /\ clock < MaxClock
    /\ clock' = clock + 1
    /\ UNCHANGED <<fEvents, fRunOrder, fCur, fPrev, appVars, cpVars, wsVars, obsVars, monVars, reqVars>>

FoldNext ==
    \/ \E e \in FoldEvents : FoldAppend(e)
    \/ FoldAgain
    \/ Tick

FoldSpec == FoldInit /\ [][FoldNext]_vars

(***************************************************************************)
(* What the observations say.                                              *)
(***************************************************************************)
CallsOf(c, cb) == SelectSeq(calls[c], LAMBDA x : x.cb = cb)
OnEventArgs(c) == [i \in 1..Len(CallsOf(c, "onEvent")) |-> CallsOf(c, "onEvent")[i].arg]
IsTerminal(call) == call.cb \in {"onDone", "onError"}

\* the indices in calls[c] of the callbacks of kind cb invoked for frame k
CallsFor(c, cb, k) == {i \in 1..Len(calls[c]) : calls[c][i].cb = cb /\ calls[c][i].frame = k}

\* frame k of socket c arrived before the channel was closed and is JSON of an event
IsLiveEvent(c, k) ==
    /\ inbound[c][k].live
    /\ inbound[c][k].data.wellFormed
    /\ inbound[c][k].data.value # JsNull
LiveEventOf(c, k, tag) == IsLiveEvent(c, k) /\ inbound[c][k].data.value.event = tag

\* frame k of socket c arrived before the channel was closed and is no JSON, or null
IsLiveMalformed(c, k) ==
    /\ inbound[c][k].live
    /\ (inbound[c][k].data.wellFormed => inbound[c][k].data.value = JsNull)

\* the run id of the latest run_start among the first k frames of socket c
RECURSIVE RunIdUpTo(_, _)
RunIdUpTo(c, k) ==
    IF k = 0 THEN ""
    ELSE IF LiveEventOf(c, k, "run_start") THEN inbound[c][k].data.value.run_id
    ELSE RunIdUpTo(c, k - 1)

(***************************************************************************)
(* Claims about the live channel (ChannelSpec) and the application (Spec). *)
(***************************************************************************)
\* C1: once onDone or onError has been invoked on a channel, no callback is
\* invoked on it again: a terminal callback is the last callback of its channel.
C1_TerminalCallbackIsLast ==
    \A c \in Chans : \A i \in 1..Len(calls[c]) :
        IsTerminal(calls[c][i]) => i = Len(calls[c])

\* a done event was reported, and afterwards a frame arrived, the caller called
\* close() and the socket reached CLOSED
C1_Witness ==
    /\ Len(calls[1]) >= 2
    /\ Last(calls[1]).cb = "onDone"
    /\ Len(inbound[1]) > Last(calls[1]).frame
    /\ closeFnCalls[1] > 0
    /\ readyState[1] = "CLOSED"

\* C2: the event log of the application, wsEvents, is at every moment the
\* sequence of events delivered through onEvent for the run submitted last,
\* the run_start event included.
C2_LogIsWhatOnEventDelivered ==
    nOpened > 0 => wsEvents = OnEventArgs(nOpened)

\* C3: onRunId is invoked at most once on a channel, whatever frames arrive.
C3_OnRunIdAtMostOnce ==
    \A c \in Chans : Len(CallsOf(c, "onRunId")) <= 1

\* C4: every frame that arrives while the channel is not closed and parses as
\* an event is handed to onEvent exactly once, before any other callback for
\* that frame, and the onEvent invocations follow the order of delivery.
C4_OnEventOncePerEventInOrder ==
    \A c \in Chans :
        /\ \A k \in 1..Len(inbound[c]) :
              IsLiveEvent(c, k) =>
                  /\ Cardinality(CallsFor(c, "onEvent", k)) = 1
                  /\ \A i \in CallsFor(c, "onEvent", k) :
                        /\ calls[c][i].arg = inbound[c][k].data.value
                        /\ \A j \in 1..Len(calls[c]) : calls[c][j].frame = k => i <= j
        /\ \A i, j \in 1..Len(calls[c]) :
              (i < j /\ calls[c][i].cb = "onEvent" /\ calls[c][j].cb = "onEvent")
                  => calls[c][i].frame < calls[c][j].frame
        /\ \A i \in 1..Len(calls[c]) :
              calls[c][i].cb = "onEvent" =>
                  /\ calls[c][i].frame \in 1..Len(inbound[c])
                  /\ inbound[c][calls[c][i].frame].live

\* a run_start and a done were delivered, each first to onEvent and then to its
\* own callback, and a later frame was dropped
C4_Witness ==
    /\ Len(calls[1]) = 4
    /\ calls[1][1].cb = "onEvent" /\ calls[1][2].cb = "onRunId"
    /\ calls[1][3].cb = "onEvent" /\ calls[1][4].cb = "onDone"
    /\ Len(inbound[1]) = 3

\* C5: a done event that arrives on an open channel invokes onDone exactly
\* once, with status failed when success is false and completed otherwise, the
\* event's success, and the run id of the latest preceding run_start (the id
\* last passed to onRunId).
C5_OnDoneResult ==
    \A c \in Chans :
        /\ Len(CallsOf(c, "onDone")) <= 1
        /\ \A k \in 1..Len(inbound[c]) :
              LiveEventOf(c, k, "done") <=> Cardinality(CallsFor(c, "onDone", k)) = 1
        /\ \A i \in 1..Len(calls[c]) :
              calls[c][i].cb = "onDone" =>
                  LET r == calls[c][i].arg
                      d == inbound[c][calls[c][i].frame].data.value
                      ids == SelectSeq(SubSeq(calls[c], 1, i), LAMBDA x : x.cb = "onRunId")
                  IN
                  /\ r.status = IF d.success THEN "completed" ELSE "failed"
                  /\ r.success = d.success
                  /\ r.run_id = RunIdUpTo(c, calls[c][i].frame)
                  /\ ids # <<>> => r.run_id = Last(ids).arg

\* a failed run: two run_start frames, then done{success: false}
C5_Witness ==
    /\ Len(CallsOf(1, "onRunId")) = 2
    /\ Len(CallsOf(1, "onDone")) = 1
    /\ CallsOf(1, "onDone")[1].arg.status = "failed"
    /\ CallsOf(1, "onDone")[1].arg.run_id = "r2"

\* C6: on a channel that is not closed, an unparseable payload, a transport
\* error and an error event each invoke onError exactly once and close the
\* channel; an error event passes its own message.
C6_ErrorsReportedOnceAndClose ==
    \A c \in Chans :
        /\ \A k \in 1..Len(inbound[c]) :
              /\ (IsLiveMalformed(c, k) \/ LiveEventOf(c, k, "error"))
                    <=> Cardinality(CallsFor(c, "onError", k)) = 1
              /\ Cardinality(CallsFor(c, "onError", k)) <= 1
              /\ LiveEventOf(c, k, "error") =>
                    \A i \in CallsFor(c, "onError", k) :
                        calls[c][i].arg = inbound[c][k].data.value.message
        /\ Cardinality(CallsFor(c, "onError", 0)) = transportErrs[c]
        /\ Len(CallsOf(c, "onError")) >= 1 =>
              /\ closed[c]
              /\ wsCloseCalls[c] = 1
              /\ readyState[c] \in {"CLOSING", "FAILED", "CLOSED"}

\* an event was delivered, then the transport failed
C6_Witness ==
    /\ Len(calls[1]) = 3
    /\ calls[1][3] = [cb |-> "onError", arg |-> "WebSocket error", frame |-> 0]
    /\ transportErrs[1] = 1
    /\ closed[1]

\* C7: the returned close function may be called any number of times in any
\* state: the underlying socket is closed at most once in total, no callback is
\* invoked by a call or after the first call, and the channel is closed.
C7_CloseIdempotent ==
    \A c \in Chans :
        /\ wsCloseCalls[c] <= 1
        /\ ~lateCall[c]
        /\ closeFnCalls[c] > 0 => closed[c] /\ wsCloseCalls[c] = 1

\* close() called twice after the channel had signalled onDone, and a frame
\* arrived after that
C7_Witness ==
    /\ closeFnCalls[1] = 2
    /\ Len(CallsOf(1, "onDone")) = 1
    /\ wsCloseCalls[1] = 1
    /\ Len(inbound[1]) > Len(CallsOf(1, "onEvent"))

(***************************************************************************)
(* Claims about the live fold (FoldSpec).                                  *)
(***************************************************************************)
\* C8: two runs of the fold over the same event log and stage order give the
\* same stage list, overall progress and log transcript, whenever they happen.
C8_FoldRepeatable ==
    (fPrev.valid /\ fPrev.events = fCur.events /\ fPrev.order = fCur.order)
        => fPrev.out = fCur.out

Backward(before, after) ==
    \/ before \in {"completed", "failed"} /\ after \in {"pending", "running"}
    \/ before = "running" /\ after = "pending"

\* C9: extending the log by an event other than pipeline_start moves no stage
\* backward: none from completed or failed to running or pending, none from
\* running to pending.
C9_StatusOnlyForward ==
    (/\ fPrev.valid
     /\ Len(fCur.events) = Len(fPrev.events) + 1
     /\ Last(fCur.events).event # "pipeline_start")
        => \A i \in 1..Len(fPrev.out.stages) :
              ~Backward(fPrev.out.stages[i].status, fCur.out.stages[i].status)

\* C10: right after pipeline_start{stages: S} is folded the stage list has one
\* entry per element of S, in the order of S, each pending with progress 0.
C10_PipelineStartResets ==
    (/\ fCur.valid
     /\ Last(fCur.events).event = "pipeline_start"
     /\ "stages" \in DOMAIN Last(fCur.events))
        => LET S == Last(fCur.events).stages
               st == fCur.out.stages
           IN
           /\ Len(st) = Len(S)
           /\ \A i \in 1..Len(S) :
                 /\ st[i].name = Label(S[i])
                 /\ st[i].status = "pending"
                 /\ st[i].progress = 0
                 /\ st[i].error = Undefined

\* a stage had failed with an error before a pipeline_start naming another order
\* than the assumed one arrived
C10_Witness ==
    /\ fCur.valid
    /\ fRunOrder = <<"graph_traverser">>
    /\ fCur.events = <<StageStart("graph_traverser"),
                       StageEnd("graph_traverser", FALSE, "boom"),
                       PipelineStart(<<"custom", "graph_traverser">>)>>

\* the stage order in force after the events: that of the latest
\* pipeline_start, or the assumed one
RECURSIVE OrderAfter(_, _)
OrderAfter(events, assumed) ==
    IF events = <<>> THEN assumed
    ELSE IF Last(events).event = "pipeline_start"
         THEN IF "stages" \in DOMAIN Last(events) THEN Last(events).stages ELSE assumed
    ELSE OrderAfter(SubSeq(events, 1, Len(events) - 1), assumed)

\* the log of fCur is that of fPrev and one stage_start or stage_end more, which
\* names a stage that is not in the order in force, folded within the same second
UnknownStageAppended ==
    /\ fPrev.valid
    /\ fCur.order = fPrev.order
    /\ fCur.at = fPrev.at
    /\ Len(fCur.events) = Len(fPrev.events) + 1
    /\ SubSeq(fCur.events, 1, Len(fPrev.events)) = fPrev.events
    /\ Last(fCur.events).event \in {"stage_start", "stage_end"}
    /\ IndexOf(OrderAfter(fPrev.events, fPrev.order), Last(fCur.events).stage) = 0

KeepsStagesAddsOneLine ==
    /\ fCur.out.stages = fPrev.out.stages
    /\ Len(fCur.out.logs) = Len(fPrev.out.logs) + 1
    /\ SubSeq(fCur.out.logs, 1, Len(fPrev.out.logs)) = fPrev.out.logs

\* C11 as stated: a stage_start or stage_end naming a stage absent from the
\* order in force leaves every stage entry and the overall progress as they
\* were and appends exactly one log line.
C11_UnknownStageChangesNothing ==
    UnknownStageAppended =>
        /\ KeepsStagesAddsOneLine
        /\ fCur.out.overallProgress = fPrev.out.overallProgress

\* C11, amended: the stage entries are as they were and exactly one line is
\* appended; the overall progress is as it was unless the log ended in a
\* successful done before the event, where the forced 100 gives way to the ratio.
C11_UnknownStageKeepsStages ==
    UnknownStageAppended =>
        /\ KeepsStagesAddsOneLine
        /\ ~EndsInSuccess(fPrev.events) =>
              fCur.out.overallProgress = fPrev.out.overallProgress

\* a successful stage_end of an unknown stage follows a completed stage: one of
\* two stages stays completed and the progress stays 50
C11_Witness ==
    /\ UnknownStageAppended
    /\ Last(fCur.events) = StageEnd("ghost", TRUE, Undefined)
    /\ fPrev.out.overallProgress = 50
    /\ fCur.out.stages[1].status = "completed"

\* the successful stage_end events of the log that name a stage of the order in
\* force when they arrive: the completed-stage counter
RECURSIVE CompletedCount(_, _)
CompletedCount(events, assumed) ==
    IF events = <<>> THEN 0
    ELSE LET before == SubSeq(events, 1, Len(events) - 1)
             e == Last(events)
         IN
         CompletedCount(before, assumed)
             + (IF /\ e.event = "stage_end"
                   /\ e.success
                   /\ IndexOf(OrderAfter(before, assumed), e.stage) > 0
                THEN 1 ELSE 0)

\* p is n / d rounded to the nearest integer, halves upward
IsRounded(p, n, d) == 2 * d * p <= 2 * n + d /\ 2 * n + d < 2 * d * (p + 1)

\* C12: a log whose last event is done{success: true} folds to an overall
\* progress of exactly 100; any other log folds to
\* round(100 * completedCount / max(stageCount, 1)).
C12_TerminalProgressOverride ==
    fCur.valid =>
        LET last == Last(fCur.events)
            count == CompletedCount(fCur.events, fCur.order)
            stageCount == Len(fCur.out.stages)
        IN
        IF last.event = "done" /\ last.success
        THEN fCur.out.overallProgress = 100
        ELSE IsRounded(fCur.out.overallProgress, 100 * count,
                       IF stageCount > 1 THEN stageCount ELSE 1)

\* one of two stages has completed when done{success: true} arrives: the ratio
\* is 50 and the progress shown is 100
C12_Witness ==
    /\ fCur.valid
    /\ fCur.events = <<StageStart("graph_traverser"),
                       StageEnd("graph_traverser", TRUE, Undefined), Done(TRUE)>>
    /\ Len(fCur.out.stages) = 2
    /\ fCur.out.overallProgress = 100

(***************************************************************************)
(* Claims about a live run shown by MonitorProgress (LiveRunSpec).         *)
(***************************************************************************)
\* the service has sent every event of the run and onDone was invoked
RunDelivered ==
    /\ nOpened = 1
    /\ Len(inbound[1]) = Len(SuccessfulRun("r1", cfgOf[1].run_stages))
    /\ Len(CallsOf(1, "onDone")) = 1

\* C13: once a well-formed successful live run of the stages S has been
\* delivered, the view MonitorProgress shows has one completed stage per stage
\* of S, overall progress 100, at least six log lines when S has two stages,
\* and no error is set.
C13_LiveSuccessRunView ==
    (RunDelivered /\ activeTab = "monitor") =>
        LET S == cfgOf[1].run_stages IN
        /\ Len(displayStages) = Len(S)
        /\ \A i \in 1..Len(S) :
              /\ displayStages[i].name = Label(S[i])
              /\ displayStages[i].status = "completed"
        /\ displayProgress = 100
        /\ Len(S) = 2 => Len(displayLogs) >= 6
        /\ error = Null

\* C14: a run submitted in live mode never starts the polling interval and
\* never issues a status poll.
C14_LiveRunNeverPolls ==
    nOpened >= 1 => (ActiveTimers = {} /\ pollsIssued = 0)

\* C15: the view shown is never a blend: with at least one live event recorded
\* the stage list, the overall progress and the transcript are all those of
\* the live fold, and with none they are all those of the polling state.
C15_ViewFromOneMode ==
    activeTab = "monitor" =>
        IF wsEvents # <<>>
        THEN /\ displayStages = liveDerived.stages
             /\ displayProgress = liveDerived.overallProgress
             /\ displayLogs = liveDerived.logs
        ELSE /\ displayStages = (IF mStages # <<>> THEN mStages ELSE PendingStages(runOrder))
             /\ displayProgress = mProgress
             /\ displayLogs = mLogs

\* C16: an interval that fires, and a status request that was issued, belong to
\* a run identifier and a non-empty stage order; while MonitorProgress holds an
\* interval these are the run identifier and the stage order it is given.
C16_PollingHasRunAndOrder ==
    /\ \A tm \in ActiveTimers :
          tm.runId \notin {Null, ""} /\ tm.order # <<>>
    /\ \A i \in 1..Len(inflight) :
          inflight[i].runId \notin {Null, ""} /\ inflight[i].order # <<>>
    /\ pollRef.set =>
          /\ activeTab = "monitor"
          /\ lastRunId = pollRef.runId
          /\ runOrder = pollRef.order
          /\ runOrder # <<>>

\* a run of one stage is polled: the interval fires and a request is out
C16_Witness ==
    /\ pollRef.set /\ pollRef.active
    /\ pollRef.order = <<"chatml_converter">>
    /\ Len(inflight) = 1
    /\ inflight[1].alive

(***************************************************************************)
(* Claims about the polling of MonitorProgress (PollSpec, RequestLiveSpec).*)
(***************************************************************************)
\* C17: in one polling session, once a response reports completed or failed
\* the interval no longer fires, and over the whole session at most one final
\* line is appended and onDone is invoked at most once, however many requests
\* were awaiting their response.
C17_TerminalPollOnce ==
    \A sid \in Sessions :
        /\ pollDone[sid].signals <= 1
        /\ pollDone[sid].lines <= 1
        /\ pollDone[sid].signals >= 1 => \A tm \in ActiveTimers : tm.session # sid

\* the line the effect logs when it starts to poll run id
WatchingLine(id) == AddLogLine("Watching run " \o id \o ". Polling for status...", clock)

\* C18: when the run identifier given to the mounted MonitorProgress changes,
\* the stage state is all-pending with progress 0 again, the overall progress
\* is 0 and nothing of the old transcript is left (at most the line that
\* announces the polling of the new run).
C18_RunChangeResets ==
    [][(/\ activeTab = "monitor"
        /\ activeTab' = "monitor"
        /\ lastRunId' # lastRunId)
           => /\ mStages' \in {<<>>, PendingStages(runOrder')}
              /\ mProgress' = 0
              /\ mLogs' \in {<<>>, <<WatchingLine(lastRunId')>>}]_vars

\* C19: cancelling the polling is idempotent and complete: clearInterval is
\* never called on an interval already cleared, no interval is left firing
\* without a handle, none fires once MonitorProgress is unmounted, and none of
\* a session fires once a response of that session reported a terminal status.
C19_CancellationOnceAndComplete ==
    /\ reclears = 0
    /\ leaked = {}
    /\ pollRef.set => pollRef.active
    /\ activeTab # "monitor" => ActiveTimers = {}
    /\ \A sid \in Sessions :
          pollDone[sid].signals >= 1 => \A tm \in ActiveTimers : tm.session # sid

\* a response reported a terminal status to the mounted component, which
\* cleared the interval; the switch to the results tab then unmounted it
C19_Witness ==
    /\ \E sid \in Sessions : pollDone[sid].lines = 1
    /\ activeTab = "results"
    /\ ~pollRef.set

\* the latest summary appended among the first k of the session, or Null
RECURSIVE LastAppended(_)
LastAppended(k) ==
    IF k = 0 THEN Null
    ELSE IF pollSeen[k].appended THEN pollSeen[k].text
    ELSE LastAppended(k - 1)

\* C20: over the successful polls of one polling session, a summary is
\* appended to the transcript exactly when its text differs from the summary
\* appended last, the first one always; every appended summary is a line of
\* its own in the transcript, in the order of the responses.
C20_PollDedup ==
    /\ \A k \in 1..Len(pollSeen) :
          /\ pollSeen[k].appended <=> pollSeen[k].text # LastAppended(k - 1)
          /\ pollSeen[k].appended =>
                /\ pollSeen[k].at <= Len(mLogs)
                /\ mLogs[pollSeen[k].at] = AddLogLine(pollSeen[k].text, clock)
          /\ k > 1 =>
                pollSeen[k].at >= pollSeen[k - 1].at
                    + (IF pollSeen[k].appended THEN 1 ELSE 0)
    /\ activeTab = "monitor" => lastLogMsgRef = LastAppended(Len(pollSeen))

\* three polls of one session: a summary, the same summary again, another one
C20_Witness ==
    /\ Len(pollSeen) = 3
    /\ pollSeen[1].appended
    /\ ~pollSeen[2].appended /\ pollSeen[2].text = pollSeen[1].text
    /\ pollSeen[3].appended /\ pollSeen[3].text # pollSeen[1].text


\* C21: a status request that fails while its component is mounted appends
\* exactly one poll-error line and changes nothing else: the stage list, the
\* overall progress, the interval (which keeps firing), the completion signals,
\* the last result and the tab are as before.
C21_PollFailureOnlyLogs ==
    [][\A i \in 1..Len(inflight) : \A msg \in PollFailures :
          (inflight[i].alive /\ PollReject(i, msg)) =>
              /\ mLogs' = Append(mLogs, AddLogLine("Poll error: " \o msg, clock))
              /\ mStages' = mStages
              /\ mProgress' = mProgress
              /\ pollRef' = pollRef
              /\ leaked' = leaked
              /\ pollDone' = pollDone
              /\ lastResult' = lastResult
              /\ activeTab' = activeTab
              /\ (pollRef.set /\ pollRef.active) => pollRef' \in ActiveTimers']_vars

\* two requests have failed and the interval has fired again since
C21_Witness ==
    /\ activeTab = "monitor"
    /\ Len(mLogs) = 3
    /\ \A k \in 2..3 : \E msg \in PollFailures : mLogs[k] = AddLogLine("Poll error: " \o msg, clock)
    /\ pollsIssued = 3
    /\ Len(inflight) = 1 /\ inflight[1].alive
    /\ pollRef.set /\ pollRef.active


\* C22: the stage list a terminal poll hands to setStages has one entry per
\* stage of the run order, entry i named after stage i, and carries for every
\* result i of the snapshot the status, progress and error of that result.
C22_TerminalStagesFollowOrder ==
    terminalSet.seen =>
        LET results == SnapshotResults(terminalSet.res)
            order == terminalSet.order
            built == terminalSet.stages
        IN
        /\ Len(built) = Len(order)
        /\ \A i \in 1..Len(built) :
              /\ built[i].name = Label(order[i])
              /\ i <= Len(results) =>
                    /\ built[i].status = (IF results[i].success THEN "completed" ELSE "failed")
                    /\ built[i].progress = (IF results[i].success THEN 100 ELSE 0)
                    /\ built[i].error = results[i].error

\* C23: the overall progress a terminal poll hands to setOverallProgress is a
\* number in 0..100: 100 for a completed snapshot, and for a failed one the
\* rounded percentage of successful results.
C23_TerminalProgressInRange ==
    terminalSet.seen =>
        LET res == terminalSet.res
            results == SnapshotResults(res)
        IN
        /\ terminalSet.progress \in 0..100
        /\ res.status = "completed" => terminalSet.progress = 100
        /\ (res.status = "failed" /\ results # <<>>) =>
              IsRounded(terminalSet.progress, 100 * Successes(results), Len(results))




(***************************************************************************)
(* Claims about the configuration view (ConfigureSpec).                    *)
(***************************************************************************)
\* the stages of `stages` appear in the canonical order, none twice
StrictlyCanonical(stages) ==
    /\ \A i \in 1..Len(stages) : Includes(STAGE_ORDER, stages[i])
    /\ \A i \in 1..Len(stages) : \A j \in (i + 1)..Len(stages) :
          IndexOf(STAGE_ORDER, stages[i]) < IndexOf(STAGE_ORDER, stages[j])

\* C27: after any sequence of toggles no stage is selected twice and the
\* run_stages of the configuration buildConfig gives, of every submitted
\* configuration and of the one App holds are in canonical order, none twice.
C27_RunStagesCanonical ==
    /\ \A i \in 1..Len(selectedStages) : \A j \in (i + 1)..Len(selectedStages) :
          selectedStages[i] # selectedStages[j]
    /\ StrictlyCanonical(buildConfig.run_stages)
    /\ Len(buildConfig.run_stages) = Len(selectedStages)
    /\ \A c \in 1..nOpened : StrictlyCanonical(cfgOf[c].run_stages)
    /\ configObj # 0 => StrictlyCanonical(config.run_stages)

\* stages selected against the canonical order, exported in the canonical one
C27_Witness ==
    /\ selectedStages = <<"finetuner", "chatml_converter", "graph_traverser">>
    /\ configObj = ExportObj
    /\ config.run_stages = <<"graph_traverser", "chatml_converter", "finetuner">>

\* C28: a toggle of evaluator changes nothing, and evaluator is never among
\* the selected stages nor among the run_stages of a configuration built,
\* submitted or held by App.
C28_EvaluatorToggleNoOp ==
    /\ [](/\ ~Includes(selectedStages, "evaluator")
          /\ ~Includes(buildConfig.run_stages, "evaluator")
          /\ \A c \in 1..nOpened : ~Includes(cfgOf[c].run_stages, "evaluator")
          /\ configObj # 0 => ~Includes(config.run_stages, "evaluator"))
    /\ [][ToggleStage("evaluator") =>
             UNCHANGED <<appVars, selectedStages, running, error, wsVars, obsVars,
                         foldVars, monVars, reqVars>>]_vars

\* evaluator was toggled after a stage had been added to the selection
C28_Witness ==
    /\ toggled = "evaluator"
    /\ selectedStages = <<"graph_traverser", "chatml_converter", "finetuner">>

\* C29: an export makes no transport call and, once a run is being followed,
\* leaves its run id, the configuration with the stage order used to monitor
\* it, the event log and the last result unchanged.
C29_ExportLeavesRunState ==
    [][(lastRunId # Null /\ HandleExport) =>
          /\ UNCHANGED <<lastRunId, config, wsEvents, lastResult>>
          /\ UNCHANGED <<nOpened, sent, fetching, http>>]_vars

(***************************************************************************)
(* Claims about request/response mode (RequestSpec, RequestLiveSpec).      *)
(***************************************************************************)
\* C24: when the submission call succeeds with a body that has no run id and
\* the ConfigurePipeline that submitted is still mounted, the error shown is
\* the message of the body ("Run failed" when it has none), onRun is not
\* called (run id, configuration and event log are as before, nothing starts
\* to poll), the tab is still configure and the running flag is cleared.
C24_NoRunIdIsFailure ==
    [][\A c \in Chans : \A res \in RunResponses(c) :
          (~Truthy(res.run_id) /\ c \in fetching /\ ownerAlive[c]
              /\ RunPipelineResolves(c, res)) =>
              /\ error' = (IF Truthy(res.message) THEN res.message ELSE "Run failed")
              /\ running' = FALSE
              /\ activeTab' = "configure"
              /\ UNCHANGED <<lastRunId, config, configObj, wsEvents, lastResult, monVars>>]_vars

\* a rejected submission with its message on the configuration tab
C24_Witness ==
    /\ nOpened = 1 /\ fetching = {}
    /\ activeTab = "configure"
    /\ error = "quota exceeded"
    /\ ~running
    /\ lastRunId = Null


\* the interval of the mounted MonitorProgress fires
Polling == pollRef.set /\ pollRef.active

\* C30: in request/response mode, with the component left mounted, once the
\* service answers every poll with completed or failed a polling interval is
\* eventually stopped with completion signalled; and as long as the service
\* answers running or another non-terminal status, or a poll fails, the
\* interval that fires stays the one that fires.
C30_PollingLiveness ==
    /\ (settled /\ Polling) ~>
          (~pollRef.set /\ \E sid \in Sessions : pollDone[sid].signals >= 1)
    /\ [][(Polling /\ ~settled') => (pollRef' = pollRef /\ pollDone' = pollDone)]_<<pollRef, pollDone>>

\* the run was accepted, polled while under way, and its end was signalled
C30_Witness ==
    /\ settled
    /\ lastRunId = "r1"
    /\ pollsIssued >= 2
    /\ ~pollRef.set
    /\ \E sid \in Sessions : pollDone[sid].signals >= 1
    /\ activeTab = "results"

(***************************************************************************)
(* Claims about the HTTP helpers (ClientSpec).                             *)
(***************************************************************************)
Contains(str, sub) ==
    \E i \in 1..(Len(str) - Len(sub) + 1) : SubSeq(str, i, i + Len(sub) - 1) = sub

\* the body parsed as JSON carries no detail field
LacksDetail(res) == res.body.detail = Undefined

\* C25: getRunStatus on a non-success response whose body has no detail field
\* fails with a message that contains the numeric status code.
C25_StatusCodeWithoutDetail ==
    \A k \in 1..Len(http) :
        (http[k].fn = "getRunStatus" /\ ~http[k].response.ok /\ LacksDetail(http[k].response)) =>
            /\ http[k].outcome.threw
            /\ Contains(http[k].outcome.message, ToString(http[k].response.status))

\* C26: runPipeline and downloadRunArtifact on a non-success response fail with
\* a message that is exactly the detail field of the body when it has one and
\* the status text otherwise, also for a body that is not JSON, and no download
\* is triggered.
C26_DetailOrStatusText ==
    \A k \in 1..Len(http) :
        (http[k].fn \in {"runPipeline", "downloadRunArtifact"} /\ ~http[k].response.ok) =>
            /\ http[k].outcome.threw
            /\ http[k].outcome.message =
                  (IF LacksDetail(http[k].response) THEN http[k].response.statusText
                   ELSE http[k].response.body.detail)
            /\ ~http[k].outcome.downloaded

(***************************************************************************)
(* Claims about the application over its live runs (Spec).                 *)
(***************************************************************************)
\* C31: whenever MonitorProgress shows a run that was started over the live
\* channel and the event log is live, the isConnected prop it is given is
\* defined (true or false).
C31_IndicatorDefinedInLiveMode ==
    (activeTab = "monitor" /\ lastRunId # Null /\ useLiveEvents) =>
        isWsConnected # Undefined

\* C32: once a later live run has been submitted, a handler of an earlier
\* run's channel that invokes callbacks leaves the state of App as it was:
\* run id, configuration, event log, result and tab.
C32_EarlierChannelIsolated ==
    [][\A c \in Chans :
          (c < nOpened /\ calls'[c] # calls[c]) => UNCHANGED appVars]_vars

(***************************************************************************)
(* Claims about responses that outlive their interval (PollSpec).          *)
(***************************************************************************)
\* the interval that issued request p no longer fires, and not because a
\* response of its session reported a terminal status: the cleanup of the
\* effect cleared it (unmount, new run id or order, switch to live mode)
Cancelled(p) ==
    /\ \A tm \in ActiveTimers : tm.session # p.session
    /\ pollDone[p.session].signals = 0

\* C33: the response to a status request whose interval was cancelled has no
\* effect: the transcript, the stage state and the overall progress of the
\* component are as before, completion is not signalled, the result and the
\* tab of App are as before.
C33_StalePollHasNoEffect ==
    [][\A i \in 1..Len(inflight) : \A res \in Snapshots(inflight[i].runId) :
          (Cancelled(inflight[i]) /\ PollResolve(i, res)) =>
              UNCHANGED <<mLogs, mStages, mProgress, pollDone, lastResult, activeTab>>]_vars

(***************************************************************************)
(* Claims about the end of a live run (Spec).                              *)
(***************************************************************************)
\* the invocations of onDone and of onError on channel c so far
Terminations(c) == Len(CallsOf(c, "onDone")) + Len(CallsOf(c, "onError"))

\* C34: once the socket of a live run is closed, whatever closed it, exactly
\* one of onDone and onError has been invoked on its channel.
C34_ClosedChannelReported ==
    \A c \in Chans : readyState[c] = "CLOSED" => Terminations(c) = 1

(***************************************************************************)
(* Claims about the overall progress of the live fold (FoldSpec).          *)
(***************************************************************************)
\* C35: for every event log and stage order the overall progress returned by
\* stagesFromWsEvents is an integer between 0 and 100.
C35_FoldProgressInRange ==
    fCur.valid => fCur.out.overallProgress \in 0..100

\* the stages of a stage list whose status is completed
CompletedStages(stages) == Len(SelectSeq(stages, LAMBDA st : st.status = "completed"))

\* C36: for a log that does not end in a successful done, the overall progress
\* is the rounded percentage of the stages of the returned list whose status
\* is completed, over the number of stages (1 for an empty list).
C36_ProgressAgreesWithStages ==
    (fCur.valid /\ ~EndsInSuccess(fCur.events)) =>
        IsRounded(fCur.out.overallProgress,
                  100 * CompletedStages(fCur.out.stages),
                  Max(Len(fCur.out.stages), 1))

(***************************************************************************)
(* Claims about the result App keeps (Spec).                               *)
(***************************************************************************)
\* C37: the result App holds is absent or carries the run id App holds.
C37_ResultBelongsToRun ==
    lastResult # NullObject => lastResult.run_id = lastRunId

==========================================================================
